---------------------------- MODULE Spec2Model ----------------------------
(***************************************************************************)
(* The order parser of the trading journal, WebullTradeParser              *)
(* (src/utils/csv_parser.py):                                              *)
(*   Spec          _match_symbol_trades, the Position Matcher: the loop    *)
(*                 that turns one symbol's filled orders into trades;      *)
(*   SpecExamples  the same on the fills of the specification's examples;  *)
(*   SpecSuspect   the same on rows with a price of 0.00 or no price;      *)
(*   SpecNormalize _parse_datetime_robust, the Timestamp Normalizer;       *)
(*   SpecDriver    match_trades_with_scaling, the driver that calls the    *)
(*                 matcher once per symbol of raw_orders;                  *)
(*   SpecPipeline  parse_webull_csv followed by match_trades_with_scaling; *)
(*   SpecSummary   match_trades_with_scaling followed by one of the two    *)
(*                 session summaries, display_trades_summary and           *)
(*                 analyze_trading_session of                              *)
(*                 src/ai_analyst/trade_analyzer.py;                       *)
(*   SpecReuse     two calls of parse_webull_csv on one parser object,     *)
(*                 with calls of match_trades_with_scaling between and     *)
(*                 after them.                                             *)
(*                                                                         *)
(* Numbers.  Prices are integers in cents.  avg_cost is a Python float in  *)
(* the source; here it is the exact rational <<numerator, denominator>> in *)
(* cents, kept in lowest terms, so the binary rounding error of float      *)
(* arithmetic is not modelled.  round(x, 2) is rounding of the exact value *)
(* to whole cents, ties to the even cent.                                  *)
(*                                                                         *)
(* Times.  A pandas Timestamp is <<"Timestamp", seconds>>, the seconds the *)
(* clocks of US/Eastern show, counted from 00:00:00 of 09/15/2025; None    *)
(* is <<"None", 0>> and the text strftime produces is <<"str", ...>>: the  *)
(* three kinds of value never compare equal to one another, as in Python.  *)
(*                                                                         *)
(* A trade record keeps the fields the matcher computes; company_name and  *)
(* the seven blank commentary fields (lines 277, 293-299) are constant     *)
(* text and are left out.                                                  *)
(***************************************************************************)
EXTENDS Integers, Sequences, FiniteSets, TLC

\* ------------------------------------------------------------------ bounds
\* Longest batch of filled orders of the symbol.
MaxOrders == 4
\* "Filled" quantities of the orders.
Quantities == {1, 2}
\* "Avg Price" values of the Buy rows and of the Sell rows, in cents: a Sell
\* at 11.25 is a gain on shares bought at 10.00 and a loss on shares bought
\* at 12.50.
BuyPrices == {1000, 1250}
SellPrices == {1125}
\* "Filled Time" values of the orders, in seconds: 09:30:00 and 09:31:30.
FillTimes == {34200, 34290}
\* The symbol whose orders are matched.
Symbols == {"AMD"}
\* The fills of the examples A and B of the specification, and their
\* times: T0 = 09:06:21, T0 + 18 min 54 s and T0 + 19 min.
ExampleFills ==
    {[Side |-> "Buy", Filled |-> 1000, AvgPrice |-> 1183],
     [Side |-> "Sell", Filled |-> 1000, AvgPrice |-> 1284],
     [Side |-> "Buy", Filled |-> 500, AvgPrice |-> 1000],
     [Side |-> "Buy", Filled |-> 500, AvgPrice |-> 1200],
     [Side |-> "Sell", Filled |-> 400, AvgPrice |-> 1300],
     [Side |-> "Sell", Filled |-> 600, AvgPrice |-> 1400]}
ExampleTimes == {32781, 33915, 33921}

\* A time of the winter: 09:30:00 of 01/15/2026, in seconds from 00:00:00 of
\* 09/15/2025, the day of FillTimes.
WinterTime == 122 * 86400 + 34200

\* Longest column of "Filled Time" cells given to _parse_datetime_robust.
MaxSeries == 3
\* The cells of such a column.  A cell is not-a-number (an empty CSV cell),
\* or a text: kind "empty" is "", kind "mdY" is a date and time written
\* month/day/year hours:minutes:seconds as Webull writes it, kind "iso" is a
\* date and time written year-month-day hours:minutes:seconds, kind "junk"
\* is a text that is no date; secs is the date and time written, in seconds
\* from 00:00:00 of 09/15/2025, zone the suffix after it.
DateStrings ==
    {[kind |-> "nan", secs |-> 0, zone |-> ""],
     [kind |-> "empty", secs |-> 0, zone |-> ""]}
    \cup [kind : {"mdY"}, secs : FillTimes, zone : {" EDT", " EST", ""}]
    \cup [kind : {"mdY"}, secs : {WinterTime}, zone : {" EDT", " EST"}]
    \cup [kind : {"iso", "junk"}, secs : {34200}, zone : {" EDT", ""}]

\* Most rows of self.raw_orders when match_trades_with_scaling is called.
MaxRawOrders == 4
\* The symbols of those rows, in alphabetical order.
Tickers == <<"AMD", "TSLA">>
\* Their fills: one share bought at 10.00 or at 0.00, or sold at 11.25.
TickerFills ==
    {[Side |-> "Buy", Filled |-> 1, AvgPrice |-> 1000],
     [Side |-> "Buy", Filled |-> 1, AvgPrice |-> 0],
     [Side |-> "Sell", Filled |-> 1, AvgPrice |-> 1125]}

\* Most rows of the CSV file given to parse_webull_csv.
MaxCsvRows == 3
\* The rows of such a file: the symbol, the status, the fill (one share
\* bought at 10.00 or sold at 11.25) and the "Filled Time" cell, which holds
\* 09:30:00 or 09:31:30 as Webull writes it, or nothing.
CsvStatuses == {"Filled", "Cancelled"}
CsvFills ==
    {[Side |-> "Buy", Filled |-> 1, AvgPrice |-> 1000],
     [Side |-> "Sell", Filled |-> 1, AvgPrice |-> 1125]}
CsvCells ==
    [kind : {"mdY"}, secs : FillTimes, zone : {" EDT"}]
    \cup {[kind |-> "empty", secs |-> 0, zone |-> ""]}

\* --------------------------------------------------------------- constants
SecondsPerMinute == 60
SecondsPerDay == 86400

VARIABLES
    symbol,        \* _match_symbol_trades' parameter symbol
    orders,        \* its parameter orders: the symbol's rows, sorted by time
    idx,           \* rows of orders the loop of line 165 has consumed
    position,      \* line 160
    avg_cost,      \* line 161, <<numerator, denominator>>
    entry_time,    \* line 162
    entry_orders,  \* line 163
    trades,        \* line 159
    datetime_series, \* _parse_datetime_robust's parameter
    parsed_times,    \* line 83
    dt_pos,          \* entries of datetime_series the loop of line 85 has taken
    df,              \* parse_webull_csv's data frame (lines 19 and 25)
    raw_orders,      \* self.raw_orders
    pending,         \* symbols the loop of line 131 has still to take
    driver_trades,   \* match_trades_with_scaling's list trades (line 128)
    matched_trades,  \* self.matched_trades
    pc,              \* the method that is running
    csv_files,       \* the files of the calls of parse_webull_csv to come
    parse_result,    \* what the last call of parse_webull_csv returned
    printed          \* the statistics printed by display_trades_summary or
                     \* written into analyze_trading_session's prompt

\* The variables of _match_symbol_trades and the variables it leaves alone.
matcher == <<symbol, orders, idx, position, avg_cost, entry_time,
             entry_orders, trades>>

\* The variables of the program that uses the parser object.
session == <<csv_files, parse_result, printed>>

caller == <<datetime_series, parsed_times, dt_pos, df, raw_orders, pending,
            driver_trades, matched_trades, pc, session>>

vars == <<matcher, caller>>

\* ------------------------------------------------------------- arithmetic
Min(a, b) == IF a <= b THEN a ELSE b

Max(a, b) == IF a >= b THEN a ELSE b

Abs(a) == IF a >= 0 THEN a ELSE -a

RECURSIVE GCD(_, _)
GCD(a, b) == IF b = 0 THEN a ELSE GCD(b, a % b)

\* The rational n/d (d > 0) in lowest terms.
Rat(n, d) ==
    LET g == GCD(Abs(n), d)
    IN  IF g = 0 THEN <<0, 1>> ELSE <<n \div g, d \div g>>

\* Python's round(): the integer nearest to n/d (d > 0), ties to even.
RoundHalfEven(n, d) ==
    LET f == n \div d
        r == n - f * d
    IN  IF 2 * r < d THEN f
        ELSE IF 2 * r > d THEN f + 1
        ELSE IF f % 2 = 0 THEN f ELSE f + 1

\* Python's int(): n/d (d > 0) truncated toward zero.
IntTrunc(n, d) == IF n >= 0 THEN n \div d ELSE -((-n) \div d)

\* float("nan"), what pd.to_numeric(errors="coerce") leaves for a price it
\* cannot read (line 60): a value that is no amount of cents.  Arithmetic
\* with NaN gives NaN and raises nothing; the rational NaN is <<NaN, 1>>.
NaN == -999999999

IsNaN(avg) == avg[1] = NaN

\* ------------------------------------------------------------ time values
None == <<"None", 0>>

Timestamp(t) == <<"Timestamp", t>>

\* A DataFrame of the given rows, and the None an attribute holds before a
\* DataFrame is assigned to it.
DataFrame(rows) == [rows |-> rows]

NoFrame == [value |-> "None"]

\* The value of a variable that is to hold what a call returns, before the
\* call.
NotCalled == [value |-> "not called"]

\* Timestamp(t) carries the zone US/Eastern; the Timestamp without a zone:
NaiveTimestamp(t) == <<"Timestamp", t, "naive">>

\* pd.NaT.
NaT == <<"NaT", 0>>

\* What the try block of a loop body is left with when a statement raises.
Raised == <<"Exception", 0>>

Unknown == <<"str", -1>>

IsTimestamp(v) == v[1] = "Timestamp"

\* entry_time.strftime("%H:%M:%S EDT"): the time of day, as text.
StrfTimeOfDay(ts) == <<"str", ts[2] % SecondsPerDay>>

\* entry_time.strftime("%Y-%m-%d"): the day, as text.
StrfDate(ts) == <<"str", ts[2] \div SecondsPerDay>>

\* ------------------------------------------------- the timestamp normalizer
\* Line 87: pd.isna(dt_str) or dt_str == "".
IsMissing(dt_str) == dt_str.kind \in {"nan", "empty"}

\* Lines 98 and 104: pd.to_datetime(text, format="%m/%d/%Y %H:%M:%S") of
\* the text without its suffix; a text in another format raises ValueError.
ToDatetimeFormat(dt_str) ==
    IF dt_str.kind = "mdY" THEN NaiveTimestamp(dt_str.secs) ELSE Raised

\* pytz.timezone("US/Eastern") (lines 100 and 105): the offsets of the zone
\* from UTC, in seconds, and the UTC times at which the zone changes from
\* one to the other.  Times are counted in seconds from 00:00:00 of
\* 09/15/2025, the day of the example of line 94: daylight time ends on
\* 11/02/2025 at 06:00:00 UTC and starts again on 03/08/2026 at 07:00:00 UTC.
EdtOffset == -14400

EstOffset == -18000

DstEndsUtc == 48 * SecondsPerDay + 21600

DstStartsUtc == 174 * SecondsPerDay + 25200

\* The offset the zone has at the UTC time u.
EasternOffsetAtUtc(u) ==
    IF u < DstEndsUtc \/ u >= DstStartsUtc THEN EdtOffset ELSE EstOffset

\* The Timestamp of zone US/Eastern for the UTC time u: Timestamp(t) is
\* written with the time t the clocks of the zone show.
EasternTimestamp(u) == Timestamp(u + EasternOffsetAtUtc(u))

\* Lines 100-101 and 105-106: eastern.localize(dt), is_dst=False.  localize
\* looks for the offsets of the zone under which the clocks show dt; when
\* two offsets do (the clocks were set back) or none does (the clocks were
\* set forward) it takes standard time.
Localize(dt) ==
    LET possible == {off \in {EdtOffset, EstOffset} :
                        EasternOffsetAtUtc(dt[2] - off) = off}
        offset   == IF Cardinality(possible) = 1
                    THEN CHOOSE off \in possible : TRUE
                    ELSE EstOffset
    IN  EasternTimestamp(dt[2] - offset)

\* Line 110: pd.to_datetime(text, errors="coerce").
ToDatetimeCoerce(dt_str) ==
    IF dt_str.kind \in {"mdY", "iso"} /\ dt_str.zone = ""
    THEN NaiveTimestamp(dt_str.secs)
    ELSE NaT

\* TryParse with the suffix read as a numeric offset: "EDT" as UTC-4 and
\* "EST" as UTC-5, whatever the date.
TryParseNumericOffset(dt_str) ==
    IF IsMissing(dt_str) THEN NaT
    ELSE IF dt_str.zone \in {" EDT", " EST"}
    THEN LET dt == ToDatetimeFormat(dt_str)
         IN  IF dt = Raised THEN Raised
             ELSE IF dt_str.zone = " EDT"
             THEN EasternTimestamp(dt[2] - EdtOffset)
             ELSE EasternTimestamp(dt[2] - EstOffset)
    ELSE ToDatetimeCoerce(dt_str)

\* Lines 86-112: the value the try block appends for one cell, or Raised.
TryParse(dt_str) ==
    IF IsMissing(dt_str) THEN NaT
    ELSE IF dt_str.zone \in {" EDT", " EST"}
    THEN LET dt == ToDatetimeFormat(dt_str)
         IN  IF dt = Raised THEN Raised ELSE Localize(dt)
    ELSE ToDatetimeCoerce(dt_str)

\* OnParseError as an except clause that only prints.
OnParseErrorPrint(parsed) == parsed

\* Lines 114-116: the except clause appends pd.NaT.
OnParseError(parsed) == Append(parsed, NaT)

\* ----------------------------------------------------------------- inputs
\* A row without its time: side, quantity and price.
Fills ==
    [Side : {"Buy"}, Filled : Quantities, AvgPrice : BuyPrices]
    \cup
    [Side : {"Sell"}, Filled : Quantities, AvgPrice : SellPrices]

\* Rows of suspect data: a Buy at 0.00 and a Buy whose price could not be
\* read, next to the good rows.
SuspectBuyPrices == {0, NaN, 1000}

SuspectFills ==
    [Side : {"Buy"}, Filled : Quantities, AvgPrice : SuspectBuyPrices]
    \cup
    [Side : {"Sell"}, Filled : Quantities, AvgPrice : SellPrices]

\* _clean_webull_data sorts the rows by symbol and time (line 77).
SortedTimes(tm) == \A i \in 1..(Len(tm) - 1) : tm[i] <= tm[i + 1]

\* The row of the columns the matcher reads.
OrderRow(fill, t) ==
    [Side |-> fill.Side, Filled |-> fill.Filled, AvgPrice |-> fill.AvgPrice,
     FilledTime |-> Timestamp(t)]

\* ------------------------------------------------ the matcher's arithmetic
\* IsBuy with the test written `order["Side"] == "Buy" or "Sell"`.
IsBuyOrTruthy(order) == order.Side = "Buy" \/ order.Side = "Sell"

\* Line 167: the row is a Buy.
IsBuy(order) == order.Side = "Buy"

\* Line 188: the row is a Sell and a position is open.
SellApplies(order, pos) == order.Side = "Sell" /\ pos > 0

\* WeightedAvgCost as the plain mean of the two prices.
UnweightedAvgCost(pos, avg, filled, price) ==
    Rat(avg[1] + price * avg[2], 2 * avg[2])

\* WeightedAvgCost with line 181 (position += filled) run before line 178.
AvgCostAfterPositionUpdate(pos, avg, filled, price) ==
    Rat((pos + filled) * avg[1] + filled * price * avg[2],
        avg[2] * (pos + filled))

\* Lines 178-182: the cost basis after adding filled @ price to pos @ avg.
WeightedAvgCost(pos, avg, filled, price) ==
    IF IsNaN(avg) \/ price = NaN
    THEN <<NaN, 1>>
    ELSE Rat(pos * avg[1] + filled * price * avg[2], avg[2] * (pos + filled))

\* ExitQuantity without the clamp of line 190.
ExitQuantityUnclamped(filled, pos) == filled

\* Line 190.
ExitQuantity(filled, pos) == Min(filled, pos)

\* PositionAfterSell without the clamp and without the reset of line 312.
PositionAfterSellShort(pos, filled) == pos - filled

\* Lines 190 and 307-312: the position a Sell of `filled` leaves.
PositionAfterSell(pos, filled) ==
    LET left == pos - ExitQuantity(filled, pos)
    IN  IF left <= 0 THEN 0 ELSE left

\* Lines 193-201: int(total_seconds / 60), or 0 without both timestamps.
DurationMinutes(et, ft) ==
    IF IsTimestamp(et) /\ IsTimestamp(ft)
    THEN IntTrunc(ft[2] - et[2], SecondsPerMinute)
    ELSE 0

\* SameEntry with the trade's text compared with the text of et.
SameEntryByText(t, sym, et) ==
    t.symbol = sym /\ IsTimestamp(et) /\ t.entry_time = StrfTimeOfDay(et)

\* Lines 216-217 and 234-235: the trade belongs to the entry (sym, et).  The
\* trade's entry_time is the text of line 258; et is the matcher's Timestamp.
SameEntry(t, sym, et) == t.symbol = sym /\ t.entry_time = et

\* Lines 211-221 and 229-239.
ScaleNum(trs, sym, et) ==
    Cardinality({i \in DOMAIN trs : SameEntry(trs[i], sym, et)}) + 1

\* Lines 323-334.
EstimateTotalExits(ords, et) ==
    IF ~IsTimestamp(et)
    THEN 1
    ELSE Max(Cardinality({i \in DOMAIN ords :
                            /\ ords[i].FilledTime[2] > et[2]
                            /\ ords[i].Side = "Sell"}), 1)

\* Lines 242-251: scale_number "k/n" is <<k, n>>; split("/")[0] keeps k.
PatchPrevTrades(trs, sym, et, total_exits) ==
    [i \in DOMAIN trs |->
        IF SameEntry(trs[i], sym, et) /\ trs[i].position_type = "Scale Out"
        THEN [trs[i] EXCEPT !.scale_number = <<@[1], total_exits>>]
        ELSE trs[i]]

\* Lines 225-226 and 253-254.
ScaleInfo(remaining, scale_num, ords, et) ==
    IF remaining > 0
    THEN <<scale_num, EstimateTotalExits(ords, et)>>
    ELSE <<scale_num, scale_num>>

PositionType(remaining, scale_num) ==
    IF remaining > 0 THEN "Scale Out"
    ELSE IF scale_num > 1 THEN "Final Exit" ELSE "Full Exit"

\* Line 278: round(avg_cost, 2), in cents.
EntryPrice(avg) == IF IsNaN(avg) THEN NaN ELSE RoundHalfEven(avg[1], avg[2])

\* PnlDollar from the rounded entry_price of line 278 instead of avg_cost.
PnlDollarFromEntryPrice(price, avg, qty) ==
    (price - RoundHalfEven(avg[1], avg[2])) * qty

\* Lines 283-285: round((price - avg_cost) * exit_quantity, 2), in cents.
PnlDollar(price, avg, qty) ==
    IF IsNaN(avg) \/ price = NaN
    THEN NaN
    ELSE RoundHalfEven((price * avg[2] - avg[1]) * qty, avg[2])

\* PnlPercent with the digits after the second decimal cut off.
PnlPercentTruncated(price, avg) ==
    IntTrunc((price * avg[2] - avg[1]) * 10000, avg[1])

\* Lines 286-288: round((price - avg_cost) / avg_cost * 100, 2), in
\* hundredths of a percent; avg_cost is not zero.
PnlPercent(price, avg) ==
    IF IsNaN(avg) \/ price = NaN
    THEN NaN
    ELSE RoundHalfEven((price * avg[2] - avg[1]) * 10000, avg[1])

\* Lines 256-300.
MakeTrade(sym, order, avg, et, exit_quantity, duration, scale_info, ptype) ==
    [date             |-> IF IsTimestamp(et) THEN StrfDate(et) ELSE Unknown,
     symbol           |-> sym,
     entry_price      |-> EntryPrice(avg),
     entry_time       |-> IF IsTimestamp(et) THEN StrfTimeOfDay(et) ELSE Unknown,
     exit_price       |-> order.AvgPrice,
     exit_time        |-> IF IsTimestamp(order.FilledTime)
                          THEN StrfTimeOfDay(order.FilledTime) ELSE Unknown,
     quantity         |-> exit_quantity,
     pnl_dollar       |-> PnlDollar(order.AvgPrice, avg, exit_quantity),
     pnl_percent      |-> PnlPercent(order.AvgPrice, avg),
     duration_minutes |-> duration,
     scale_number     |-> scale_info,
     position_type    |-> ptype]

\* AppendTrade as `trades = [trade]`.
RebindTrades(trs, trade) == <<trade>>

\* Line 302.
AppendTrade(trs, trade) == Append(trs, trade)

\* Lines 317-319: what the except clause of the loop body does with an
\* exception raised by a row.
RowExceptRaise == "raise"

RowExcept == "continue"

\* ------------------------------------------------------------ the matcher
\* Lines 159-163: the locals of _match_symbol_trades before its first row.
MatcherLocals ==
    /\ idx = 0
    /\ position = 0
    /\ avg_cost = <<0, 1>>
    /\ entry_time = None
    /\ entry_orders = <<>>
    /\ trades = <<>>

\* No file is waiting to be parsed, parse_webull_csv has not been called and
\* nothing was printed.
NoSession ==
    /\ csv_files = <<>>
    /\ parse_result = NotCalled
    /\ printed = <<>>

\* Lines 10-11: a parser object none of whose public methods is running.
ParserIdle ==
    /\ datetime_series = <<>>
    /\ parsed_times = <<>>
    /\ dt_pos = 0
    /\ df = <<>>
    /\ raw_orders = NoFrame
    /\ pending = <<>>
    /\ driver_trades = <<>>
    /\ matched_trades = <<>>
    /\ NoSession

\* _match_symbol_trades called on a batch of rows drawn from fill_set, at
\* times drawn from time_set in the order of line 77 (line 139: the batch
\* is not empty).
MatchSymbolTrades(fill_set, time_set) ==
    /\ symbol \in Symbols
    /\ \E n \in 1..MaxOrders :
         \E tm \in [1..n -> time_set] :
            /\ SortedTimes(tm)
            /\ \E fills \in [1..n -> fill_set] :
                  orders = [i \in 1..n |-> OrderRow(fills[i], tm[i])]
    /\ MatcherLocals
    /\ ParserIdle
    /\ pc = "_match_symbol_trades"

Init == MatchSymbolTrades(Fills, FillTimes)

\* BuyNew without line 171: entry_time is left as it was.
BuyNewKeepsEntryTime ==
    /\ pc = "_match_symbol_trades"
    /\ idx < Len(orders)
    /\ IsBuy(orders[idx + 1])
    /\ position = 0
    /\ avg_cost' = Rat(orders[idx + 1].AvgPrice, 1)
    /\ position' = orders[idx + 1].Filled
    /\ entry_orders' = <<orders[idx + 1]>>
    /\ idx' = idx + 1
    /\ UNCHANGED <<symbol, orders, entry_time, trades, caller>>

\* Lines 169-175: a Buy while flat opens a position.
BuyNew ==
    /\ pc = "_match_symbol_trades"
    /\ idx < Len(orders)
    /\ IsBuy(orders[idx + 1])
    /\ position = 0
    /\ entry_time' = orders[idx + 1].FilledTime
    /\ avg_cost' = Rat(orders[idx + 1].AvgPrice, 1)
    /\ position' = orders[idx + 1].Filled
    /\ entry_orders' = <<orders[idx + 1]>>
    /\ idx' = idx + 1
    /\ UNCHANGED <<symbol, orders, trades, caller>>

\* BuyAdd with entry_time set to the time of the added Buy.
BuyAddMovesEntryTime ==
    /\ pc = "_match_symbol_trades"
    /\ idx < Len(orders)
    /\ IsBuy(orders[idx + 1])
    /\ position # 0
    /\ avg_cost' = WeightedAvgCost(position, avg_cost, orders[idx + 1].Filled,
                                   orders[idx + 1].AvgPrice)
    /\ position' = position + orders[idx + 1].Filled
    /\ entry_time' = orders[idx + 1].FilledTime
    /\ entry_orders' = Append(entry_orders, orders[idx + 1])
    /\ idx' = idx + 1
    /\ UNCHANGED <<symbol, orders, trades, caller>>

\* Lines 176-186: a Buy while open adds to the position.
BuyAdd ==
    /\ pc = "_match_symbol_trades"
    /\ idx < Len(orders)
    /\ IsBuy(orders[idx + 1])
    /\ position # 0
    /\ avg_cost' = WeightedAvgCost(position, avg_cost, orders[idx + 1].Filled,
                                   orders[idx + 1].AvgPrice)
    /\ position' = position + orders[idx + 1].Filled
    /\ entry_orders' = Append(entry_orders, orders[idx + 1])
    /\ idx' = idx + 1
    /\ UNCHANGED <<symbol, orders, entry_time, trades, caller>>

\* Lines 188-315: a Sell while open emits a trade and reduces the position.
\* A zero avg_cost makes line 287 raise ZeroDivisionError, which line 317
\* catches: the row is dropped after the patch of lines 242-251 was made.
\* An exception that line 317 did not catch would leave the call and be
\* caught by line 147, which goes on with the next symbol.
SellExit ==
    /\ pc = "_match_symbol_trades"
    /\ idx < Len(orders)
    /\ ~IsBuy(orders[idx + 1])
    /\ SellApplies(orders[idx + 1], position)
    /\ LET order         == orders[idx + 1]
           exit_quantity == ExitQuantity(order.Filled, position)
           duration      == DurationMinutes(entry_time, order.FilledTime)
           remaining     == position - exit_quantity
           scale_num     == ScaleNum(trades, symbol, entry_time)
           patched       == IF remaining > 0 THEN trades
                            ELSE PatchPrevTrades(trades, symbol, entry_time,
                                                 scale_num)
           scale_info    == ScaleInfo(remaining, scale_num, orders, entry_time)
           ptype         == PositionType(remaining, scale_num)
           closed        == PositionAfterSell(position, order.Filled) <= 0
       IN  IF avg_cost[1] = 0 /\ RowExcept = "continue"
           THEN /\ trades' = patched
                /\ idx' = idx + 1
                /\ UNCHANGED <<position, avg_cost, entry_time, entry_orders,
                               caller>>
           ELSE IF avg_cost[1] = 0
           THEN /\ trades' = patched
                /\ pending' = Tail(pending)
                /\ pc' = "match_trades_with_scaling"
                /\ UNCHANGED <<idx, position, avg_cost, entry_time,
                               entry_orders, datetime_series, parsed_times,
                               dt_pos, df, raw_orders, driver_trades,
                               matched_trades, session>>
           ELSE /\ trades' = AppendTrade(patched,
                                MakeTrade(symbol, order, avg_cost, entry_time,
                                          exit_quantity, duration, scale_info,
                                          ptype))
                /\ position' = PositionAfterSell(position, order.Filled)
                /\ avg_cost' = IF closed THEN <<0, 1>> ELSE avg_cost
                /\ entry_time' = IF closed THEN None ELSE entry_time
                /\ entry_orders' = IF closed THEN <<>> ELSE entry_orders
                /\ idx' = idx + 1
                /\ UNCHANGED caller
    /\ UNCHANGED <<symbol, orders>>

\* Lines 167 and 188: a row that is neither a Buy nor a Sell against an open
\* position falls through the loop body.
SkipOrder ==
    /\ pc = "_match_symbol_trades"
    /\ idx < Len(orders)
    /\ ~IsBuy(orders[idx + 1])
    /\ ~SellApplies(orders[idx + 1], position)
    /\ idx' = idx + 1
    /\ UNCHANGED <<symbol, orders, position, avg_cost, entry_time,
                   entry_orders, trades, caller>>

Next == BuyNew \/ BuyAdd \/ SellExit \/ SkipOrder

Spec == Init /\ [][Next]_vars

\* ---------------------------------------------- match_trades_with_scaling
\* No call of _match_symbol_trades is running.
MatcherIdle ==
    /\ symbol = None
    /\ orders = <<>>
    /\ MatcherLocals

\* The place of a symbol in the alphabet.
Rank(sym) == CHOOSE i \in 1..Len(Tickers) : Tickers[i] = sym

\* Line 77: the order sort_values(["Symbol", "Filled Time"],
\* na_position="last") gives two rows; it keeps the file's order of rows
\* with equal keys.
RowBefore(a, b) ==
    \/ Rank(a.Symbol) < Rank(b.Symbol)
    \/ /\ a.Symbol = b.Symbol
       /\ IsTimestamp(a.FilledTime)
       /\ (IsTimestamp(b.FilledTime) => a.FilledTime[2] < b.FilledTime[2])

SortedRows(rows) ==
    \A i \in 1..(Len(rows) - 1) : ~RowBefore(rows[i + 1], rows[i])

\* A row of self.raw_orders: the columns the driver and the matcher read.
RawRow(sym, fill, ft) ==
    [Symbol |-> sym, Status |-> "Filled", Side |-> fill.Side,
     Filled |-> fill.Filled, AvgPrice |-> fill.AvgPrice, FilledTime |-> ft]

\* Line 131: Series.unique(), the symbols in the order of first appearance.
RECURSIVE Unique(_)
Unique(rows) ==
    IF rows = <<>> THEN <<>>
    ELSE LET before == Unique(SubSeq(rows, 1, Len(rows) - 1))
             sym    == rows[Len(rows)].Symbol
         IN  IF \E i \in DOMAIN before : before[i] = sym
             THEN before
             ELSE Append(before, sym)

\* SymbolOrders without the test of line 134.
OrdersOfAllSymbols(rows, sym) == rows

\* Lines 133-135: the rows of the symbol.
SymbolOrders(rows, sym) ==
    LET OfSymbol(row) == row.Symbol = sym
    IN  SelectSeq(rows, OfSymbol)

\* DropNa without line 137.
KeepNa(rows) == rows

\* Line 137: dropna(subset=["Filled Time"]).
DropNa(rows) ==
    LET HasTime(row) == row.FilledTime # NaT
    IN  SelectSeq(rows, HasTime)

\* A parser whose raw_orders were set by an earlier parse_webull_csv (line
\* 38: rows of status "Filled", in the order of line 77), or never (line
\* 10), on which match_trades_with_scaling is called.
InitDriver ==
    /\ \/ raw_orders = NoFrame
       \/ \E n \in 1..MaxRawOrders :
             \E syms \in [1..n -> {Tickers[i] : i \in DOMAIN Tickers}] :
                \E fts \in [1..n -> {Timestamp(t) : t \in FillTimes} \cup {NaT}] :
                   /\ SortedRows([i \in 1..n |->
                                    [Symbol |-> syms[i], FilledTime |-> fts[i]]])
                   /\ \E fills \in [1..n -> TickerFills] :
                         raw_orders = DataFrame(
                             [i \in 1..n |-> RawRow(syms[i], fills[i], fts[i])])
    /\ datetime_series = <<>>
    /\ parsed_times = <<>>
    /\ dt_pos = 0
    /\ df = <<>>
    /\ pending = <<>>
    /\ driver_trades = <<>>
    /\ matched_trades = <<>>
    /\ NoSession
    /\ pc = "idle"
    /\ MatcherIdle

\* Lines 124-126: no orders were parsed.
MatchNoOrders ==
    /\ pc = "idle"
    /\ raw_orders = NoFrame
    /\ pc' = "returned"
    /\ UNCHANGED <<matcher, datetime_series, parsed_times, dt_pos, df,
                   raw_orders, pending, driver_trades, matched_trades,
                   session>>

\* Lines 128-131: the list of trades and the symbols to go through.
MatchStart ==
    /\ pc = "idle"
    /\ raw_orders # NoFrame
    /\ driver_trades' = <<>>
    /\ pending' = Unique(raw_orders.rows)
    /\ pc' = "match_trades_with_scaling"
    /\ UNCHANGED <<matcher, datetime_series, parsed_times, dt_pos, df,
                   raw_orders, matched_trades, session>>

\* Lines 131-144 and 159-163: the next symbol has rows with a timestamp;
\* _match_symbol_trades is called on them.
SymbolBegin ==
    /\ pc = "match_trades_with_scaling"
    /\ pending # <<>>
    /\ LET symbol_orders == DropNa(SymbolOrders(raw_orders.rows, Head(pending)))
       IN  /\ symbol_orders # <<>>
           /\ orders' = symbol_orders
    /\ symbol' = Head(pending)
    /\ idx' = 0
    /\ position' = 0
    /\ avg_cost' = <<0, 1>>
    /\ entry_time' = None
    /\ entry_orders' = <<>>
    /\ trades' = <<>>
    /\ pc' = "_match_symbol_trades"
    /\ UNCHANGED <<datetime_series, parsed_times, dt_pos, df, raw_orders,
                   pending, driver_trades, matched_trades, session>>

\* Lines 139-141: the next symbol has no row with a timestamp.
SymbolEmpty ==
    /\ pc = "match_trades_with_scaling"
    /\ pending # <<>>
    /\ DropNa(SymbolOrders(raw_orders.rows, Head(pending))) = <<>>
    /\ pending' = Tail(pending)
    /\ UNCHANGED <<matcher, datetime_series, parsed_times, dt_pos, df,
                   raw_orders, driver_trades, matched_trades, pc, session>>

\* Lines 321 and 144-145: the matcher returns its trades, the driver adds
\* them to its list.
SymbolEnd ==
    /\ pc = "_match_symbol_trades"
    /\ pending # <<>>
    /\ idx = Len(orders)
    /\ driver_trades' = driver_trades \o trades
    /\ pending' = Tail(pending)
    /\ pc' = "match_trades_with_scaling"
    /\ UNCHANGED <<matcher, datetime_series, parsed_times, dt_pos, df,
                   raw_orders, matched_trades, session>>

\* Lines 151-154: all symbols done.
MatchReturn ==
    /\ pc = "match_trades_with_scaling"
    /\ pending = <<>>
    /\ matched_trades' = driver_trades
    /\ pc' = "returned"
    /\ UNCHANGED <<matcher, datetime_series, parsed_times, dt_pos, df,
                   raw_orders, pending, driver_trades, session>>

NextDriver ==
    \/ MatchNoOrders
    \/ MatchStart
    \/ SymbolBegin
    \/ SymbolEmpty
    \/ BuyNew
    \/ BuyAdd
    \/ SellExit
    \/ SkipOrder
    \/ SymbolEnd
    \/ MatchReturn

SpecDriver == InitDriver /\ [][NextDriver]_vars

\* ------------------------------------------------------ parse_webull_csv
\* Lines 83-118: the column of results for a column of cells.
RECURSIVE ParseDatetimeRobust(_)
ParseDatetimeRobust(series) ==
    IF series = <<>> THEN <<>>
    ELSE LET parsed == ParseDatetimeRobust(SubSeq(series, 1, Len(series) - 1))
             dt     == TryParse(series[Len(series)])
         IN  IF dt = Raised THEN OnParseError(parsed) ELSE Append(parsed, dt)

\* Line 77: sort_values puts a row after the rows already placed that are
\* not after it.
RECURSIVE SortValues(_)
SortValues(rows) ==
    IF rows = <<>> THEN <<>>
    ELSE LET placed == SortValues(SubSeq(rows, 1, Len(rows) - 1))
             row    == rows[Len(rows)]
             ahead  == Cardinality({j \in DOMAIN placed :
                                       ~RowBefore(row, placed[j])})
         IN  SubSeq(placed, 1, ahead) \o <<row>>
                 \o SubSeq(placed, ahead + 1, Len(placed))

\* CleanWebullData without the sort of line 77.
CleanWebullDataUnsorted(rows) ==
    LET times == ParseDatetimeRobust([i \in DOMAIN rows |-> rows[i].FilledTime])
    IN  [i \in DOMAIN rows |-> [rows[i] EXCEPT !.FilledTime = times[i]]]

\* Lines 48-79: the "Filled Time" column is replaced by its results (line
\* 62), then the rows are sorted; a row keeps its index label.
CleanWebullData(rows) ==
    LET times == ParseDatetimeRobust([i \in DOMAIN rows |-> rows[i].FilledTime])
    IN  SortValues([i \in DOMAIN rows |->
                       [rows[i] EXCEPT !.FilledTime = times[i]]])

\* FilledOnly without the test of line 28.
AnyStatus(rows) == rows

\* Line 28: df[df["Status"] == "Filled"].
FilledOnly(rows) ==
    LET IsFilled(row) == row.Status = "Filled"
    IN  SelectSeq(rows, IsFilled)

\* A row of the file as pd.read_csv gives it (line 19); its index label is
\* its place in the file, counted from 0.
CsvRow(i, sym, status, fill, cell) ==
    [Index |-> i - 1, Symbol |-> sym, Status |-> status, Side |-> fill.Side,
     Filled |-> fill.Filled, AvgPrice |-> fill.AvgPrice, FilledTime |-> cell]

\* A new parser on which parse_webull_csv is called and has read its file
\* (line 19), or on which match_trades_with_scaling is called first.
InitPipeline ==
    /\ \/ /\ pc = "parse_webull_csv"
          /\ \E n \in 1..MaxCsvRows :
               \E syms \in [1..n -> {Tickers[i] : i \in DOMAIN Tickers}] :
                  \E stats \in [1..n -> CsvStatuses] :
                     \E fills \in [1..n -> CsvFills] :
                        \E cells \in [1..n -> CsvCells] :
                           df = [i \in 1..n |->
                                   CsvRow(i, syms[i], stats[i], fills[i],
                                          cells[i])]
       \/ /\ pc = "idle"
          /\ df = <<>>
    /\ raw_orders = NoFrame
    /\ datetime_series = <<>>
    /\ parsed_times = <<>>
    /\ dt_pos = 0
    /\ pending = <<>>
    /\ driver_trades = <<>>
    /\ matched_trades = <<>>
    /\ NoSession
    /\ MatcherIdle

\* Lines 25-39: the frame is cleaned, the rows of status "Filled" are kept
\* in self.raw_orders and returned.
ParseWebullCsv ==
    /\ pc = "parse_webull_csv"
    /\ raw_orders' = DataFrame(FilledOnly(CleanWebullData(df)))
    /\ parse_result' = raw_orders'
    /\ df' = <<>>
    /\ pc' = "idle"
    /\ UNCHANGED <<matcher, datetime_series, parsed_times, dt_pos, pending,
                   driver_trades, matched_trades, csv_files, printed>>

NextPipeline == ParseWebullCsv \/ NextDriver

SpecPipeline == InitPipeline /\ [][NextPipeline]_vars

\* --------------------------------------------- _parse_datetime_robust
\* Lines 81-83: _parse_datetime_robust called on a column of cells.
InitNormalize ==
    /\ \E n \in 1..MaxSeries : datetime_series \in [1..n -> DateStrings]
    /\ parsed_times = <<>>
    /\ dt_pos = 0
    /\ df = <<>>
    /\ raw_orders = NoFrame
    /\ pending = <<>>
    /\ driver_trades = <<>>
    /\ matched_trades = <<>>
    /\ NoSession
    /\ pc = "_parse_datetime_robust"
    /\ MatcherIdle

\* Lines 87-89: a missing cell.
ParseMissing ==
    /\ pc = "_parse_datetime_robust"
    /\ dt_pos < Len(datetime_series)
    /\ IsMissing(datetime_series[dt_pos + 1])
    /\ parsed_times' = Append(parsed_times, TryParse(datetime_series[dt_pos + 1]))
    /\ dt_pos' = dt_pos + 1
    /\ UNCHANGED <<matcher, datetime_series, df, raw_orders, pending,
                   driver_trades, matched_trades, pc, session>>

\* Lines 94-112: a cell the try block gets a value for.
ParseText ==
    /\ pc = "_parse_datetime_robust"
    /\ dt_pos < Len(datetime_series)
    /\ ~IsMissing(datetime_series[dt_pos + 1])
    /\ TryParse(datetime_series[dt_pos + 1]) # Raised
    /\ parsed_times' = Append(parsed_times, TryParse(datetime_series[dt_pos + 1]))
    /\ dt_pos' = dt_pos + 1
    /\ UNCHANGED <<matcher, datetime_series, df, raw_orders, pending,
                   driver_trades, matched_trades, pc, session>>

\* Lines 114-116: a cell on which the try block raises.
ParseRaises ==
    /\ pc = "_parse_datetime_robust"
    /\ dt_pos < Len(datetime_series)
    /\ TryParse(datetime_series[dt_pos + 1]) = Raised
    /\ parsed_times' = OnParseError(parsed_times)
    /\ dt_pos' = dt_pos + 1
    /\ UNCHANGED <<matcher, datetime_series, df, raw_orders, pending,
                   driver_trades, matched_trades, pc, session>>

\* Line 118: the loop is over, the column of results is returned.
ReturnSeries ==
    /\ pc = "_parse_datetime_robust"
    /\ dt_pos = Len(datetime_series)
    /\ pc' = "returned"
    /\ UNCHANGED <<matcher, datetime_series, parsed_times, dt_pos, df,
                   raw_orders, pending, driver_trades, matched_trades,
                   session>>

NextNormalize == ParseMissing \/ ParseText \/ ParseRaises \/ ReturnSeries

SpecNormalize == InitNormalize /\ [][NextNormalize]_vars

\* The matcher on the batches made of the fills of the examples.
InitExamples == MatchSymbolTrades(ExampleFills, ExampleTimes)

SpecExamples == InitExamples /\ [][Next]_vars

\* The matcher on batches that hold suspect rows.
InitSuspect == MatchSymbolTrades(SuspectFills, FillTimes)

SpecSuspect == InitSuspect /\ [][Next]_vars

\* ---------------------------------------------------- the session summary
(***************************************************************************)
(* display_trades_summary (lines 336-360) and TradeAnalyzer's              *)
(* analyze_trading_session (src/ai_analyst/trade_analyzer.py, lines        *)
(* 72-92), called with the list match_trades_with_scaling returned.  Both  *)
(* compute the total P&L, the win rate and the average duration and write  *)
(* them with the formats .2f, .1% and .1f.  pnl_dollar is an amount of     *)
(* cents: the trades come from rows whose prices were read.                *)
(***************************************************************************)
\* df['pnl_dollar'].sum() (line 346), sum(t["pnl_dollar"] ...) (line 78).
RECURSIVE TotalPnl(_)
TotalPnl(trs) ==
    IF trs = <<>> THEN 0 ELSE Head(trs).pnl_dollar + TotalPnl(Tail(trs))

\* The sum of df['duration_minutes'].mean() (line 348) and of line 79.
RECURSIVE TotalDuration(_)
TotalDuration(trs) ==
    IF trs = <<>> THEN 0
    ELSE Head(trs).duration_minutes + TotalDuration(Tail(trs))

\* Wins with the test written `pnl_dollar >= 0`.
WinsOrBreakEven(trs) ==
    Cardinality({i \in DOMAIN trs : trs[i].pnl_dollar >= 0})

\* The sum of (df['pnl_dollar'] > 0).mean() (line 347) and of line 82.
Wins(trs) == Cardinality({i \in DOMAIN trs : trs[i].pnl_dollar > 0})

\* The format .1f of n/d: the nearest number of tenths.
FormatTenths(n, d) == RoundHalfEven(10 * n, d)

\* The format .1% of n/d: the nearest number of tenths of a percent.
FormatPercent(n, d) == RoundHalfEven(1000 * n, d)

\* Lines 344-348, and lines 78-91 of trade_analyzer.py: the figures written
\* for a list of trades that is not empty.
Statistics(trs) ==
    [kind         |-> "statistics",
     total_trades |-> Len(trs),
     total_pnl    |-> TotalPnl(trs),
     win_rate     |-> FormatPercent(Wins(trs), Len(trs)),
     avg_duration |-> FormatTenths(TotalDuration(trs), Len(trs))]

\* Lines 338-340, and lines 75-76 of trade_analyzer.py: the message for an
\* empty list.
NoTrades == [kind |-> "no trades"]

\* The rows of raw_orders of the sessions summarized: one share of one
\* symbol bought at 10.00, 11.25 or 12.50, or sold at 11.25.
SummaryFills ==
    {[Side |-> "Buy", Filled |-> 1, AvgPrice |-> 1000],
     [Side |-> "Buy", Filled |-> 1, AvgPrice |-> 1125],
     [Side |-> "Buy", Filled |-> 1, AvgPrice |-> 1250],
     [Side |-> "Sell", Filled |-> 1, AvgPrice |-> 1125]}

\* A parser whose raw_orders is None or the sorted rows of a parsed file,
\* on which match_trades_with_scaling is called.
InitSummary ==
    /\ \/ raw_orders = NoFrame
       \/ \E n \in 1..MaxRawOrders :
             \E fts \in [1..n -> {Timestamp(t) : t \in FillTimes} \cup {NaT}] :
                /\ SortedRows([i \in 1..n |->
                                 [Symbol |-> Tickers[1], FilledTime |-> fts[i]]])
                /\ \E fills \in [1..n -> SummaryFills] :
                      raw_orders = DataFrame(
                          [i \in 1..n |-> RawRow(Tickers[1], fills[i], fts[i])])
    /\ datetime_series = <<>>
    /\ parsed_times = <<>>
    /\ dt_pos = 0
    /\ df = <<>>
    /\ pending = <<>>
    /\ driver_trades = <<>>
    /\ matched_trades = <<>>
    /\ NoSession
    /\ pc = "idle"
    /\ MatcherIdle

\* Lines 338-340: nothing to display.
DisplayNoTrades ==
    /\ pc = "returned"
    /\ matched_trades = <<>>
    /\ printed' = <<NoTrades>>
    /\ pc' = "display_trades_summary"
    /\ UNCHANGED <<matcher, datetime_series, parsed_times, dt_pos, df,
                   raw_orders, pending, driver_trades, matched_trades,
                   csv_files, parse_result>>

\* Lines 342-360: the statistics of self.matched_trades are printed.
DisplayTradesSummary ==
    /\ pc = "returned"
    /\ matched_trades # <<>>
    /\ printed' = <<Statistics(matched_trades)>>
    /\ pc' = "display_trades_summary"
    /\ UNCHANGED <<matcher, datetime_series, parsed_times, dt_pos, df,
                   raw_orders, pending, driver_trades, matched_trades,
                   csv_files, parse_result>>

\* Lines 75-76 of trade_analyzer.py: nothing to analyze.
AnalyzeNoTrades ==
    /\ pc = "returned"
    /\ matched_trades = <<>>
    /\ printed' = <<NoTrades>>
    /\ pc' = "analyze_trading_session"
    /\ UNCHANGED <<matcher, datetime_series, parsed_times, dt_pos, df,
                   raw_orders, pending, driver_trades, matched_trades,
                   csv_files, parse_result>>

\* Lines 78-92 of trade_analyzer.py: the statistics of trades_list, the list
\* match_trades_with_scaling returned, are written into the prompt.
AnalyzeTradingSession ==
    /\ pc = "returned"
    /\ matched_trades # <<>>
    /\ printed' = <<Statistics(matched_trades)>>
    /\ pc' = "analyze_trading_session"
    /\ UNCHANGED <<matcher, datetime_series, parsed_times, dt_pos, df,
                   raw_orders, pending, driver_trades, matched_trades,
                   csv_files, parse_result>>

NextSummary ==
    \/ NextDriver
    \/ DisplayNoTrades
    \/ DisplayTradesSummary
    \/ AnalyzeNoTrades
    \/ AnalyzeTradingSession

SpecSummary == InitSummary /\ [][NextSummary]_vars

\* ------------------------------------------- one parser object used again
(***************************************************************************)
(* parse_webull_csv and match_trades_with_scaling called again on the same *)
(* WebullTradeParser object: self.raw_orders and self.matched_trades stay  *)
(* from one call to the next.                                              *)
(***************************************************************************)
\* Most rows of a file given to a parser object that is used again.
MaxReuseRows == 2

\* The "Filled Time" cells of such a file: 09:30:00 as Webull writes it, or
\* nothing.
ReuseCells ==
    {[kind |-> "mdY", secs |-> 34200, zone |-> " EDT"],
     [kind |-> "empty", secs |-> 0, zone |-> ""]}

\* A file pd.read_csv cannot read (line 19 raises): it does not exist or is
\* empty.
Unreadable == [error |-> "read_csv"]

\* The files: a file that cannot be read, or the frame of a file of filled
\* orders of one symbol.
CsvFiles ==
    {Unreadable} \cup
    UNION {{DataFrame([i \in 1..n |->
                         CsvRow(i, Tickers[1], "Filled", fills[i], cells[i])]) :
               fills \in [1..n -> CsvFills], cells \in [1..n -> ReuseCells]} :
           n \in 1..MaxReuseRows}

\* A new parser object, and the files of a first and a second call of
\* parse_webull_csv.
InitReuse ==
    /\ \E first \in CsvFiles : \E second \in CsvFiles :
          csv_files = <<first, second>>
    /\ parse_result = NotCalled
    /\ printed = <<>>
    /\ raw_orders = NoFrame
    /\ datetime_series = <<>>
    /\ parsed_times = <<>>
    /\ dt_pos = 0
    /\ df = <<>>
    /\ pending = <<>>
    /\ driver_trades = <<>>
    /\ matched_trades = <<>>
    /\ pc = "idle"
    /\ MatcherIdle

\* Lines 13-19: parse_webull_csv is called and reads its file.
ParseCall ==
    /\ pc \in {"idle", "returned"}
    /\ csv_files # <<>>
    /\ Head(csv_files) # Unreadable
    /\ df' = Head(csv_files).rows
    /\ csv_files' = Tail(csv_files)
    /\ pc' = "parse_webull_csv"
    /\ UNCHANGED <<matcher, datetime_series, parsed_times, dt_pos, raw_orders,
                   pending, driver_trades, matched_trades, parse_result,
                   printed>>

\* Lines 13-19 and 41-46: parse_webull_csv is called, line 19 raises and the
\* call returns None; self.raw_orders is not assigned.
ParseFails ==
    /\ pc \in {"idle", "returned"}
    /\ csv_files # <<>>
    /\ Head(csv_files) = Unreadable
    /\ csv_files' = Tail(csv_files)
    /\ parse_result' = NoFrame
    /\ pc' = "idle"
    /\ UNCHANGED <<matcher, datetime_series, parsed_times, dt_pos, df,
                   raw_orders, pending, driver_trades, matched_trades,
                   printed>>

NextReuse == ParseCall \/ ParseFails \/ ParseWebullCsv \/ NextDriver

SpecReuse == InitReuse /\ [][NextReuse]_vars

\* ------------------------------------------- the entries of the rows read
(***************************************************************************)
(* What the specification's transitions (FLAT/OPEN) say of the first i     *)
(* rows of orders, computed from the rows alone: the open quantity, the    *)
(* quantity bought into the open entry, the number of Sells applied to it  *)
(* so far, the row that opened it, and the number of Sells applied to an   *)
(* open position since the start.  The claims below are stated with it;    *)
(* the matcher's own variables are not read.                               *)
(***************************************************************************)
RefStep(r, o, i) ==
    IF o.Side = "Buy"
    THEN IF r.pos = 0
         THEN [pos |-> o.Filled, bought |-> o.Filled, legs |-> 0,
               opened |-> i, applied |-> r.applied]
         ELSE [r EXCEPT !.pos = @ + o.Filled, !.bought = @ + o.Filled]
    ELSE IF r.pos = 0
         THEN r
         ELSE IF o.Filled >= r.pos
              THEN [pos |-> 0, bought |-> 0, legs |-> 0, opened |-> 0,
                    applied |-> r.applied + 1]
              ELSE [r EXCEPT !.pos = @ - o.Filled, !.legs = @ + 1,
                             !.applied = @ + 1]

RECURSIVE Ref(_)
Ref(i) ==
    IF i = 0
    THEN [pos |-> 0, bought |-> 0, legs |-> 0, opened |-> 0, applied |-> 0]
    ELSE RefStep(Ref(i - 1), orders[i], i)

\* The cost of the shares held after the first i rows, as the rational
\* HeldCost(i)[1] / HeldCost(i)[2]: a Buy adds its quantity times its price,
\* a partial Sell takes from every earlier Buy of the entry in the same
\* proportion, a closing Sell leaves nothing.
RECURSIVE HeldCost(_)
HeldCost(i) ==
    IF i = 0 \/ Ref(i).pos = 0
    THEN <<0, 1>>
    ELSE IF Ref(i - 1).pos = 0
    THEN <<orders[i].Filled * orders[i].AvgPrice, 1>>
    ELSE LET c == HeldCost(i - 1)
         IN  IF orders[i].Side = "Buy"
             THEN Rat(c[1] + orders[i].Filled * orders[i].AvgPrice * c[2], c[2])
             ELSE Rat(c[1] * Ref(i).pos, c[2] * Ref(i - 1).pos)

\* Row i is a Sell applied against an open position.
SellOnOpen(i) == orders[i].Side = "Sell" /\ Ref(i - 1).pos > 0

\* Row i is the Sell that closes its entry.
Closes(i) == SellOnOpen(i) /\ Ref(i).pos = 0

\* The number of exit legs of the entry that row i closes.
LegsClosedBy(i) == Ref(i - 1).legs + 1

\* The places in trades of the legs of the entry that row i closes.
LegPlaces(i) == (Ref(i).applied - LegsClosedBy(i) + 1)..Ref(i).applied

RECURSIVE SumQuantity(_, _)
SumQuantity(trs, places) ==
    IF places = {} THEN 0
    ELSE LET j == CHOOSE k \in places : TRUE
         IN  trs[j].quantity + SumQuantity(trs, places \ {j})

\* ------------------------------------------------------------------ claims
\* C1: for every entry fully closed within the batch, the quantities of the
\* trades emitted for it add up to the quantity bought into it.
C1_ExitQuantitiesSumToEntry ==
    \A i \in 1..idx :
        Closes(i) =>
            /\ Ref(i).applied <= Len(trades)
            /\ SumQuantity(trades, LegPlaces(i)) = Ref(i - 1).bought

\* C1's case: an entry of two Buys closed by a partial Sell and an
\* oversized Sell.
C1_Witness ==
    /\ idx >= 4
    /\ Closes(idx)
    /\ LegsClosedBy(idx) >= 2
    /\ Ref(idx - 1).bought > orders[Ref(idx - 1).opened].Filled
    /\ orders[idx].Filled > Ref(idx - 1).pos
    /\ Len(trades) = Ref(idx).applied

\* C2: the position quantity is never negative.
C2_PositionNeverNegative == position >= 0

\* C2's case: a Sell larger than the open position has been applied.
C2_Witness ==
    /\ idx >= 1
    /\ SellOnOpen(idx)
    /\ orders[idx].Filled > Ref(idx - 1).pos
    /\ position = 0
    /\ Len(trades) >= 1

\* C3: a Sell that arrives while the matcher is flat emits no trade and
\* leaves qty, avg_cost, entry_time and the emitted trades unchanged.
C3_SellWhileFlatIgnored ==
    [][(idx < Len(orders) /\ orders[idx + 1].Side = "Sell" /\ position = 0)
         => UNCHANGED <<position, avg_cost, entry_time, trades>>]_vars

\* C3's case: a Sell has been read while flat after an entry had closed.
C3_Witness ==
    /\ idx >= 3
    /\ orders[idx].Side = "Sell"
    /\ Ref(idx - 1).pos = 0
    /\ Ref(idx - 1).applied >= 1
    /\ position = 0
    /\ Len(trades) = Ref(idx - 1).applied

\* C4 as claimed: once the Sell that closes an entry of k >= 2 exit legs has
\* been processed, every trade of that entry has the denominator k and the
\* closing trade is labelled k/k.
C4_DenominatorsRewritten ==
    \A i \in 1..idx :
        (Closes(i) /\ LegsClosedBy(i) >= 2 /\ Ref(i).applied <= Len(trades)) =>
            /\ \A j \in LegPlaces(i) :
                   trades[j].scale_number[2] = LegsClosedBy(i)
            /\ trades[Ref(i).applied].scale_number =
                   <<LegsClosedBy(i), LegsClosedBy(i)>>

\* C5 as claimed: the trade of a Sell is a Scale Out when the position stays
\* open, a Full Exit when the Sell closes the entry as its first exit leg and
\* a Final Exit when it closes the entry after earlier Scale Out legs.
C5_PositionTypeByLeg ==
    \A i \in 1..idx :
        (SellOnOpen(i) /\ Ref(i).applied <= Len(trades)) =>
            trades[Ref(i).applied].position_type =
                IF Ref(i).pos > 0 THEN "Scale Out"
                ELSE IF Ref(i - 1).legs = 0 THEN "Full Exit"
                ELSE "Final Exit"

\* C6 as claimed: the numerator of a trade's scale_number is 1 plus the
\* number of trades already emitted for the same entry.
C6_NumeratorCountsLegs ==
    \A i \in 1..idx :
        (SellOnOpen(i) /\ Ref(i).applied <= Len(trades)) =>
            trades[Ref(i).applied].scale_number[1] = Ref(i - 1).legs + 1

\* C7: from FLAT, after a Buy of (q1, p1) and a Buy of (q2, p2) with no Sell
\* between them, qty = q1 + q2 and avg_cost = (q1*p1 + q2*p2) / (q1 + q2).
C7_TwoBuysAvgCost ==
    (/\ idx >= 2
     /\ Ref(idx - 2).pos = 0
     /\ orders[idx - 1].Side = "Buy"
     /\ orders[idx].Side = "Buy") =>
        LET q1 == orders[idx - 1].Filled
            p1 == orders[idx - 1].AvgPrice
            q2 == orders[idx].Filled
            p2 == orders[idx].AvgPrice
        IN  /\ position = q1 + q2
            /\ avg_cost[1] * (q1 + q2) = (q1 * p1 + q2 * p2) * avg_cost[2]

\* C7's case: two Buys of different quantities and prices, the first one
\* opening a new entry after an earlier entry had closed.
C7_Witness ==
    /\ idx >= 4
    /\ Ref(idx - 2).pos = 0
    /\ Ref(idx - 2).applied >= 1
    /\ orders[idx - 1].Side = "Buy"
    /\ orders[idx].Side = "Buy"
    /\ orders[idx - 1].Filled # orders[idx].Filled
    /\ orders[idx - 1].AvgPrice # orders[idx].AvgPrice
    /\ position = orders[idx - 1].Filled + orders[idx].Filled

RECURSIVE SumFilled(_)
SumFilled(rows) ==
    IF rows = {} THEN 0
    ELSE LET i == CHOOSE k \in rows : TRUE
         IN  orders[i].Filled + SumFilled(rows \ {i})

RECURSIVE SumCost(_)
SumCost(rows) ==
    IF rows = {} THEN 0
    ELSE LET i == CHOOSE k \in rows : TRUE
         IN  orders[i].Filled * orders[i].AvgPrice + SumCost(rows \ {i})

\* The Buy rows of the entry that is open after the rows read so far.
BuysOfOpenEntry == {i \in Ref(idx).opened..idx : orders[i].Side = "Buy"}

\* C8 as claimed: in every OPEN state avg_cost is the mean of the prices of
\* the Buy fills of the open entry, each weighted by its fill quantity.
C8_AvgCostIsMeanOfBuyFills ==
    position > 0 =>
        avg_cost[1] * SumFilled(BuysOfOpenEntry) =
            SumCost(BuysOfOpenEntry) * avg_cost[2]

\* C8 as amended: in every OPEN state avg_cost is the mean of the prices of
\* the Buy fills of the open entry, each weighted by the quantity of it that
\* is still held, a partial Sell taking from every earlier Buy fill in the
\* same proportion: avg_cost times the open quantity is the cost of the
\* shares still held (HeldCost).
C8_AvgCostIsMeanOfHeldShares ==
    position > 0 =>
        /\ position = Ref(idx).pos
        /\ avg_cost[1] * position * HeldCost(idx)[2] =
               HeldCost(idx)[1] * avg_cost[2]

\* C8's case: a Buy at another price has been added after a partial Sell.
C8_Witness ==
    /\ idx >= 3
    /\ orders[idx].Side = "Buy"
    /\ SellOnOpen(idx - 1)
    /\ Ref(idx - 1).pos > 0
    /\ position > 0
    /\ orders[idx].AvgPrice * avg_cost[2] # avg_cost[1]
    /\ avg_cost[1] * SumFilled(BuysOfOpenEntry) #
           SumCost(BuysOfOpenEntry) * avg_cost[2]

\* C9: the pnl_dollar of the trade a Sell emits is round((exit_price -
\* avg_cost at the Sell) * quantity, 2), the quantity being the Sell's
\* quantity clamped to the open quantity.
C9_PnlDollar ==
    [][(idx < Len(orders) /\ orders[idx + 1].Side = "Sell" /\ position > 0) =>
         /\ Len(trades') = Len(trades) + 1
         /\ LET t == trades'[Len(trades')]
                q == Min(orders[idx + 1].Filled, position)
            IN  /\ t.quantity = q
                /\ t.exit_price = orders[idx + 1].AvgPrice
                /\ t.pnl_dollar =
                       RoundHalfEven((t.exit_price * avg_cost[2] - avg_cost[1]) * q,
                                     avg_cost[2])]_vars

\* C9's case: an oversized Sell has emitted a trade with a profit or a loss
\* for less than its own quantity.
C9_Witness ==
    /\ idx >= 2
    /\ SellOnOpen(idx)
    /\ Len(trades) = Ref(idx).applied
    /\ trades[Len(trades)].quantity < orders[idx].Filled
    /\ trades[Len(trades)].quantity = Ref(idx - 1).pos
    /\ trades[Len(trades)].pnl_dollar # 0

\* A trade without the denominator of its scale_number.
WithoutDenominator(t) == [t EXCEPT !.scale_number = <<@[1], 0>>]

\* C10: an emitted trade is never removed, and no later row changes any of
\* its fields but the denominator of scale_number.
C10_EmittedTradesKept ==
    [][/\ Len(trades') >= Len(trades)
       /\ \A i \in 1..Len(trades) :
              WithoutDenominator(trades'[i]) = WithoutDenominator(trades[i])]_vars

\* C10's case: the Sell that closes an entry has been processed after a
\* Scale Out trade of that entry was emitted.
C10_Witness ==
    /\ idx >= 3
    /\ Closes(idx)
    /\ LegsClosedBy(idx) >= 2
    /\ Len(trades) >= 2
    /\ trades[Len(trades) - 1].position_type = "Scale Out"

\* The batch of example A: Buy 1000 @ 11.83 at T0, Sell 1000 @ 12.84 at
\* T0 + 19 min.
ExampleA ==
    <<OrderRow([Side |-> "Buy", Filled |-> 1000, AvgPrice |-> 1183], 32781),
      OrderRow([Side |-> "Sell", Filled |-> 1000, AvgPrice |-> 1284], 33921)>>

\* The fields of a trade that example A names.
ExampleFields(t) ==
    [entry_price |-> t.entry_price, exit_price |-> t.exit_price,
     quantity |-> t.quantity, pnl_dollar |-> t.pnl_dollar,
     pnl_percent |-> t.pnl_percent, duration_minutes |-> t.duration_minutes,
     scale_number |-> t.scale_number, position_type |-> t.position_type]

C12_OversellClamped ==
    [][(/\ idx < Len(orders)
        /\ orders[idx + 1].Side = "Sell"
        /\ position > 0
        /\ orders[idx + 1].Filled > position) =>
          /\ trades' = Append(trades, trades'[Len(trades')])
          /\ trades'[Len(trades')].quantity = position
          /\ position' = 0
          /\ avg_cost' = <<0, 1>>
          /\ entry_time' = None
          /\ idx' = idx + 1]_vars

\* C12's case: an oversized Sell has closed an entry after a partial Sell,
\* and a row after it has been read.
C12_Witness ==
    /\ idx >= 4
    /\ SellOnOpen(idx - 1)
    /\ orders[idx - 1].Filled > Ref(idx - 2).pos
    /\ Ref(idx - 2).legs >= 1
    /\ Ref(idx - 1).pos = 0
    /\ Len(trades) >= 2
    /\ trades[Ref(idx - 1).applied].quantity < orders[idx - 1].Filled

\* C13 as claimed: a Sell read while OPEN when avg_cost is zero or is not a
\* number emits no trade and does not reduce the position, and the loop
\* goes on with the next row.
C13_SellSkippedOnBadAvgCost ==
    [][(/\ idx < Len(orders)
        /\ orders[idx + 1].Side = "Sell"
        /\ position > 0
        /\ (avg_cost[1] = 0 \/ IsNaN(avg_cost))) =>
          /\ trades' = trades
          /\ position' = position
          /\ idx' = idx + 1]_vars

\* C14: the normalizer takes every cell of the column (no cell stops the
\* loop), writes exactly one result per cell at the cell's own position, the
\* result of an empty, null or unparsable cell being the missing-value
\* marker and every other result being either the marker or the time
\* written in that very cell; when it returns, the results are as many as
\* the cells.
C14_NormalizeNeverFails ==
    /\ Len(parsed_times) = dt_pos
    /\ \A i \in 1..Len(parsed_times) :
          /\ datetime_series[i].kind \in {"nan", "empty", "junk"} =>
                 parsed_times[i] = NaT
          /\ parsed_times[i] # NaT =>
                 /\ IsTimestamp(parsed_times[i])
                 /\ parsed_times[i][2] = datetime_series[i].secs
    /\ (pc = "_parse_datetime_robust") => ENABLED NextNormalize
    /\ (pc = "returned") => dt_pos = Len(datetime_series)

\* C14's case: the call has returned for a column whose first cell made
\* the try block raise, whose second is null or empty and whose third
\* holds a time, which is the third result.
C14_Witness ==
    /\ pc = "returned"
    /\ Len(datetime_series) = 3
    /\ TryParse(datetime_series[1]) = Raised
    /\ IsMissing(datetime_series[2])
    /\ parsed_times[1] = NaT
    /\ parsed_times[2] = NaT
    /\ IsTimestamp(parsed_times[3])
    /\ parsed_times[3][2] = 34290

\* C15 as claimed: every value the normalizer produces is the missing-value
\* marker or a Timestamp that carries a time zone.
C15_ResultsAreZoneAware ==
    \A i \in 1..Len(parsed_times) :
        \/ parsed_times[i] = NaT
        \/ IsTimestamp(parsed_times[i]) /\ Len(parsed_times[i]) = 2

\* ------------------------------------------- what a symbol's fills give
(***************************************************************************)
(* The fills of a symbol that have a timestamp, taken from raw_orders, and *)
(* what _match_symbol_trades computes from a batch of rows and nothing     *)
(* else: the matcher's locals after the first i rows of the batch.         *)
(***************************************************************************)
OwnFills(sym) ==
    LET Own(row) == row.Symbol = sym /\ row.FilledTime # NaT
    IN  SelectSeq(raw_orders.rows, Own)

TradesOf(trs, sym) ==
    LET Of(t) == t.symbol = sym
    IN  SelectSeq(trs, Of)

AfterRow(st, order, ords, sym) ==
    IF IsBuy(order)
    THEN IF st.position = 0
         THEN [st EXCEPT !.position = order.Filled,
                         !.avg_cost = Rat(order.AvgPrice, 1),
                         !.entry_time = order.FilledTime]
         ELSE [st EXCEPT !.position = @ + order.Filled,
                         !.avg_cost = WeightedAvgCost(st.position, st.avg_cost,
                                                      order.Filled,
                                                      order.AvgPrice)]
    ELSE IF ~SellApplies(order, st.position)
    THEN st
    ELSE LET exit_quantity == ExitQuantity(order.Filled, st.position)
             remaining     == st.position - exit_quantity
             scale_num     == ScaleNum(st.trades, sym, st.entry_time)
             patched       == IF remaining > 0 THEN st.trades
                              ELSE PatchPrevTrades(st.trades, sym,
                                                   st.entry_time, scale_num)
             closed        == PositionAfterSell(st.position, order.Filled) <= 0
         IN  IF st.avg_cost[1] = 0
             THEN [st EXCEPT !.trades = patched]
             ELSE [position   |-> PositionAfterSell(st.position, order.Filled),
                   avg_cost   |-> IF closed THEN <<0, 1>> ELSE st.avg_cost,
                   entry_time |-> IF closed THEN None ELSE st.entry_time,
                   trades     |->
                       AppendTrade(patched,
                           MakeTrade(sym, order, st.avg_cost, st.entry_time,
                               exit_quantity,
                               DurationMinutes(st.entry_time, order.FilledTime),
                               ScaleInfo(remaining, scale_num, ords,
                                         st.entry_time),
                               PositionType(remaining, scale_num)))]

RECURSIVE Matched(_, _, _)
Matched(sym, ords, i) ==
    IF i = 0
    THEN [position |-> 0, avg_cost |-> <<0, 1>>, entry_time |-> None,
          trades |-> <<>>]
    ELSE AfterRow(Matched(sym, ords, i - 1), ords[i], ords, sym)

\* The FLAT/OPEN replay of the first i rows of a batch that may hold Buys at
\* 0.00: the open quantity, whether every Buy of the open entry was at 0.00
\* (avg_cost is then zero), the Sells read while OPEN at a nonzero avg_cost
\* and the Sells read while OPEN at a zero avg_cost.
RECURSIVE Replay(_, _)
Replay(ords, i) ==
    IF i = 0
    THEN [pos |-> 0, free |-> FALSE, good |-> 0, failed |-> 0]
    ELSE LET r == Replay(ords, i - 1)
             o == ords[i]
         IN  IF o.Side = "Buy"
             THEN [r EXCEPT !.pos = @ + o.Filled,
                            !.free = (r.pos = 0 \/ @) /\ o.AvgPrice = 0]
             ELSE IF r.pos = 0 THEN r
             ELSE IF r.free THEN [r EXCEPT !.failed = @ + 1]
             ELSE [r EXCEPT !.pos = IF o.Filled >= @ THEN 0 ELSE @ - o.Filled,
                            !.good = @ + 1]

\* The symbols of raw_orders.
SymbolsOfRawOrders == {raw_orders.rows[i].Symbol : i \in DOMAIN raw_orders.rows}

\* C16: no row whose timestamp is the missing-value marker is ever in the
\* batch a matcher reads; the batch of a symbol is that symbol's rows with
\* a timestamp, all of them, in their order; and a symbol whose rows all
\* lack a timestamp has no trade in the result.
C16_MissingTimestampsDropped ==
    /\ \A i \in DOMAIN orders : orders[i].FilledTime # NaT
    /\ (pc = "_match_symbol_trades") => orders = OwnFills(symbol)
    /\ (pc = "returned" /\ raw_orders # NoFrame) =>
          \A sym \in SymbolsOfRawOrders :
              OwnFills(sym) = <<>> => TradesOf(matched_trades, sym) = <<>>

\* C16's case: the call has returned; one symbol had a Buy and a Sell with
\* missing timestamps only and has no trade, the other had a Buy without a
\* timestamp besides a Buy and a Sell with one and has a trade.
C16_Witness ==
    /\ pc = "returned"
    /\ raw_orders # NoFrame
    /\ \E s1, s2 \in SymbolsOfRawOrders :
          /\ OwnFills(s1) = <<>>
          /\ TradesOf(matched_trades, s1) = <<>>
          /\ \E i, j \in DOMAIN raw_orders.rows :
                /\ raw_orders.rows[i].Symbol = s1
                /\ raw_orders.rows[i].Side = "Buy"
                /\ raw_orders.rows[j].Symbol = s1
                /\ raw_orders.rows[j].Side = "Sell"
          /\ Len(OwnFills(s2)) = 1
          /\ \E i \in DOMAIN raw_orders.rows :
                /\ raw_orders.rows[i].Symbol = s2
                /\ raw_orders.rows[i].FilledTime = NaT

\* The index labels of the rows of a frame.
Labels(rows) == {rows[i].Index : i \in DOMAIN rows}

\* C17: parse_webull_csv keeps in raw_orders the rows of the file whose
\* status is "Filled" and no other row, and every row of a batch a matcher
\* reads is a row of raw_orders with status "Filled": a row of another
\* status is never read by a matcher.
C17_OnlyFilledRowsMatched ==
    [][/\ (pc = "parse_webull_csv") =>
             /\ \A k \in DOMAIN df :
                    (df[k].Status = "Filled") <=>
                        (df[k].Index \in Labels(raw_orders'.rows))
             /\ Len(raw_orders'.rows) = Cardinality(Labels(raw_orders'.rows))
       /\ \A i \in DOMAIN orders' :
             /\ orders'[i].Status = "Filled"
             /\ \E j \in DOMAIN raw_orders'.rows :
                    raw_orders'.rows[j] = orders'[i]]_vars

\* C17's case: the call has returned a trade for a file of three rows of
\* which the second, between the two rows kept, had another status than
\* "Filled".
C17_Witness ==
    /\ pc = "returned"
    /\ raw_orders # NoFrame
    /\ Labels(raw_orders.rows) = {0, 2}
    /\ Len(matched_trades) = 1

\* C18: while a symbol is being matched the matcher's position, avg_cost,
\* entry_time and trades are what that symbol's own fills give from a FLAT
\* start, and in the result the trades of every symbol are what its own
\* fills give, whatever the other rows of raw_orders are and wherever the
\* symbol stands among them.
C18_SymbolsIndependent ==
    /\ (pc = "_match_symbol_trades") =>
          /\ idx <= Len(OwnFills(symbol))
          /\ [position |-> position, avg_cost |-> avg_cost,
              entry_time |-> entry_time, trades |-> trades] =
                 Matched(symbol, OwnFills(symbol), idx)
    /\ (pc = "returned" /\ raw_orders # NoFrame) =>
          \A sym \in SymbolsOfRawOrders :
              TradesOf(matched_trades, sym) =
                  Matched(sym, OwnFills(sym), Len(OwnFills(sym))).trades

\* C18's case: the second symbol is being matched and has read a Sell while
\* FLAT, after the first symbol was left with an open position.
C18_Witness ==
    /\ pc = "_match_symbol_trades"
    /\ symbol = Tickers[2]
    /\ idx >= 1
    /\ orders[1].Side = "Sell"
    /\ trades = <<>>
    /\ Replay(OwnFills(Tickers[1]), Len(OwnFills(Tickers[1]))).pos > 0
    /\ Replay(OwnFills(Tickers[1]), Len(OwnFills(Tickers[1]))).good >= 1

\* C19: a Sell that raises (avg_cost is zero) leaves no trade and does not
\* stop the call: the matcher is still running after it, the call can go
\* on, and the rows after it are read as if it had not been there, so that
\* the trades of a symbol are as many as its Sells read while OPEN at a
\* nonzero avg_cost, while it is matched and in the result.
C19_RowFailureSkipped ==
    /\ (pc = "_match_symbol_trades") =>
          /\ Len(trades) = Replay(orders, idx).good
          /\ position = Replay(orders, idx).pos
          /\ (idx >= 1 /\ Replay(orders, idx).failed >
                              Replay(orders, idx - 1).failed) =>
                 ENABLED NextDriver
    /\ (pc = "returned" /\ raw_orders # NoFrame) =>
          \A sym \in SymbolsOfRawOrders :
              Len(TradesOf(matched_trades, sym)) =
                  Replay(OwnFills(sym), Len(OwnFills(sym))).good

\* C19's case: the call has returned; a Sell of the first symbol raised and
\* the second symbol has a trade in the result.
C19_Witness ==
    /\ pc = "returned"
    /\ raw_orders # NoFrame
    /\ Replay(OwnFills(Tickers[1]), Len(OwnFills(Tickers[1]))).failed >= 1
    /\ TradesOf(matched_trades, Tickers[2]) # <<>>

\* C20: the trades emitted so far are as many as the Sells read while the
\* position was open: a Sell read while OPEN adds one trade, a Buy and a
\* Sell read while FLAT add none.
C20_OneTradePerSellOnOpen ==
    Len(trades) = Ref(idx).applied

\* C20's case: the whole batch has been read; it held a Sell read while
\* FLAT, a Buy, and two Sells read while OPEN.
C20_Witness ==
    /\ idx = Len(orders)
    /\ Len(trades) = 2
    /\ \E i \in 1..idx : orders[i].Side = "Sell" /\ Ref(i - 1).pos = 0
    /\ \E i \in 1..idx : orders[i].Side = "Buy"

\* The Sells of the batch from row `from` on whose time is after the time of
\* row `opened`.
SellsAfterEntry(from, opened) ==
    {i \in from..Len(orders) :
        /\ orders[i].Side = "Sell"
        /\ orders[i].FilledTime[2] > orders[opened].FilledTime[2]}

\* C21 as claimed: the denominator written on a Scale Out trade when it is
\* emitted is max(1, the number of Sells after the entry's entry_time among
\* the rows not consumed before this Sell); the Sells the matcher has
\* already consumed are not counted.
C21_DenominatorCountsUnconsumedSells ==
    [][(/\ Len(trades') = Len(trades) + 1
        /\ trades'[Len(trades')].position_type = "Scale Out")
         => trades'[Len(trades')].scale_number[2] =
               Max(1, Cardinality(SellsAfterEntry(idx + 1, Ref(idx).opened)))
      ]_vars

\* C22 as claimed: the duration_minutes of a trade, when it is emitted, is
\* max(0, the time from the entry's entry_time to the Sell's time, in
\* minutes, rounded to the nearest whole minute): an exit 18 min 54 s after
\* the entry has the duration 19.
C22_DurationRoundedToNearestMinute ==
    [][(Len(trades') = Len(trades) + 1)
         => trades'[Len(trades')].duration_minutes =
               Max(0, RoundHalfEven(orders[idx + 1].FilledTime[2]
                                      - orders[Ref(idx).opened].FilledTime[2],
                                    SecondsPerMinute))
      ]_vars

\* C23: a Buy read while FLAT, at the start of the batch or after an earlier
\* entry has fully closed, sets avg_cost to the fill's price, qty to the
\* fill's quantity and entry_time to the fill's time, whatever the earlier
\* entries were: their Buys are not in entry_orders and their legs are not
\* counted in the next scale number.
C23_BuyWhileFlatStartsAfresh ==
    [][(/\ idx < Len(orders)
        /\ orders[idx + 1].Side = "Buy"
        /\ Ref(idx).pos = 0)
         => /\ avg_cost' = <<orders[idx + 1].AvgPrice, 1>>
            /\ position' = orders[idx + 1].Filled
            /\ entry_time' = orders[idx + 1].FilledTime
            /\ entry_orders' = <<orders[idx + 1]>>
            /\ ScaleNum(trades', symbol, entry_time') = 1
      ]_vars

\* C23's case: a Buy has opened a position after an earlier entry, bought at
\* another price and another time, was closed in two legs.
C23_Witness ==
    /\ idx = 4
    /\ orders[4].Side = "Buy"
    /\ Ref(3).pos = 0
    /\ Ref(3).applied = 2
    /\ Len(trades) = 2
    /\ orders[1].AvgPrice # orders[4].AvgPrice
    /\ orders[1].FilledTime # orders[4].FilledTime
    /\ position = orders[4].Filled
    /\ avg_cost = <<orders[4].AvgPrice, 1>>
    /\ entry_time = orders[4].FilledTime

\* C24: the batch a matcher reads after parse_webull_csv and
\* match_trades_with_scaling holds rows of one symbol, each with a
\* timestamp, in non-decreasing order of time, whatever the order of the
\* rows in the file was.
C24_FillsFedInTimeOrder ==
    (pc = "_match_symbol_trades") =>
        /\ \A i \in DOMAIN orders :
              /\ orders[i].Symbol = symbol
              /\ IsTimestamp(orders[i].FilledTime)
        /\ \A i \in 1..(Len(orders) - 1) :
              orders[i].FilledTime[2] <= orders[i + 1].FilledTime[2]

\* C24's case: the matcher has emitted a trade from a Buy of 09:30:00 and a
\* Sell of 09:31:30 that stood in the file in the opposite order, the Sell
\* before the Buy.
C24_Witness ==
    /\ pc = "_match_symbol_trades"
    /\ Len(orders) = 2
    /\ idx = 2
    /\ orders[1].Index > orders[2].Index
    /\ orders[1].FilledTime[2] < orders[2].FilledTime[2]
    /\ orders[1].Side = "Buy"
    /\ Len(trades) = 1

\* The offset from UTC the US Eastern calendar gives for the day of the text
\* time t, a day on which the clocks are not changed.
CalendarOffset(t) ==
    IF t \div SecondsPerDay < DstEndsUtc \div SecondsPerDay
       \/ t \div SecondsPerDay > DstStartsUtc \div SecondsPerDay
    THEN EdtOffset
    ELSE EstOffset

\* C25: two cells that hold the same date and time, one with the suffix
\* "EDT" and one with the suffix "EST", normalize to the same Timestamp of
\* zone US/Eastern: the instant at which the date and time written are
\* that many seconds ahead of UTC as the US Eastern calendar gives for the
\* date, whichever suffix was written.
C25_SuffixOnlySelectsEastern ==
    \A i \in 1..Len(parsed_times) : \A j \in 1..Len(parsed_times) :
        (/\ datetime_series[i].kind = "mdY"
         /\ datetime_series[j].kind = "mdY"
         /\ datetime_series[i].secs = datetime_series[j].secs
         /\ datetime_series[i].zone = " EDT"
         /\ datetime_series[j].zone = " EST")
          => /\ parsed_times[i] = parsed_times[j]
             /\ parsed_times[i] =
                   EasternTimestamp(datetime_series[i].secs
                                      - CalendarOffset(datetime_series[i].secs))

\* C25's case: the column held a time of the winter with the suffix "EDT",
\* the same time with the suffix "EST", and a time of the summer with the
\* suffix "EST"; all three results keep the date and time written.
C25_Witness ==
    /\ pc = "returned"
    /\ Len(parsed_times) = 3
    /\ datetime_series[1] = [kind |-> "mdY", secs |-> WinterTime, zone |-> " EDT"]
    /\ datetime_series[2] = [kind |-> "mdY", secs |-> WinterTime, zone |-> " EST"]
    /\ datetime_series[3] = [kind |-> "mdY", secs |-> 34200, zone |-> " EST"]
    /\ parsed_times[1] = Timestamp(WinterTime)
    /\ parsed_times[2] = Timestamp(WinterTime)
    /\ parsed_times[3] = Timestamp(34200)

\* The sum of pnl_dollar, and of duration_minutes, over the places of a list
\* of trades.
RECURSIVE SumCents(_, _)
SumCents(trs, places) ==
    IF places = {} THEN 0
    ELSE LET j == CHOOSE k \in places : TRUE
         IN  trs[j].pnl_dollar + SumCents(trs, places \ {j})

RECURSIVE SumMinutes(_, _)
SumMinutes(trs, places) ==
    IF places = {} THEN 0
    ELSE LET j == CHOOSE k \in places : TRUE
         IN  trs[j].duration_minutes + SumMinutes(trs, places \ {j})

\* The amounts of a list of trades that are above zero.
Won(trs) == {i \in DOMAIN trs : trs[i].pnl_dollar > 0}

\* C26: the summary of a list of trades that is not empty reports the sum
\* of pnl_dollar as total P&L, the number of trades with pnl_dollar above
\* zero divided by the number of trades as win rate (in tenths of a
\* percent), a break-even trade counting as not won, and the mean of
\* duration_minutes as average duration (in tenths of a minute); the
\* summary of an empty list reports no statistic, only that there are no
\* trades.
C26_SessionSummary ==
    (pc \in {"display_trades_summary", "analyze_trading_session"}) =>
        /\ Len(printed) = 1
        /\ (matched_trades = <<>>) => printed[1] = NoTrades
        /\ (matched_trades # <<>>) =>
              /\ printed[1].kind = "statistics"
              /\ printed[1].total_pnl =
                    SumCents(matched_trades, DOMAIN matched_trades)
              /\ printed[1].win_rate =
                    RoundHalfEven(1000 * Cardinality(Won(matched_trades)),
                                  Len(matched_trades))
              /\ printed[1].avg_duration =
                    RoundHalfEven(10 * SumMinutes(matched_trades,
                                                  DOMAIN matched_trades),
                                  Len(matched_trades))

\* C26's case: display_trades_summary has printed the summary of a winning
\* trade and a break-even trade, a win rate of 50.0 percent.
C26_Witness ==
    /\ pc = "display_trades_summary"
    /\ Len(matched_trades) = 2
    /\ \E i \in 1..2 : matched_trades[i].pnl_dollar = 0
    /\ \E i \in 1..2 : matched_trades[i].pnl_dollar > 0
    /\ printed[1].win_rate = 500
    /\ printed[1].total_pnl > 0

\* C27: while a position is open, a further Buy and a partial Sell leave
\* entry_time unchanged and a partial Sell leaves avg_cost unchanged; every
\* trade emitted carries the time of the Buy that opened its entry, and its
\* duration is counted from that Buy, not from a later Buy of the entry.
C27_EntryTimeFixedWhileOpen ==
    [][(idx < Len(orders) /\ Ref(idx).pos > 0) =>
          /\ (orders[idx + 1].Side = "Buy") => entry_time' = entry_time
          /\ (orders[idx + 1].Side = "Sell"
                /\ orders[idx + 1].Filled < Ref(idx).pos)
                => /\ entry_time' = entry_time
                   /\ avg_cost' = avg_cost
          /\ (orders[idx + 1].Side = "Sell")
                => /\ Len(trades') = Len(trades) + 1
                   /\ trades'[Len(trades')].entry_time =
                         StrfTimeOfDay(orders[Ref(idx).opened].FilledTime)
                   /\ trades'[Len(trades')].duration_minutes =
                         DurationMinutes(orders[Ref(idx).opened].FilledTime,
                                         orders[idx + 1].FilledTime)
      ]_vars

\* C27's case: an entry opened at 09:30:00 was added to at 09:31:30 and then
\* sold in part and closed at 09:31:30; both trades carry 09:30:00 and the
\* duration of one minute.
C27_Witness ==
    /\ idx = 4
    /\ orders[1].Side = "Buy"
    /\ orders[2].Side = "Buy"
    /\ orders[1].FilledTime[2] < orders[2].FilledTime[2]
    /\ Ref(3).legs = 1
    /\ Closes(4)
    /\ Len(trades) = 2
    /\ \A j \in 1..2 :
          /\ trades[j].entry_time = StrfTimeOfDay(orders[1].FilledTime)
          /\ trades[j].duration_minutes = 1

\* C28: after every row read (quantities and prices are positive), the
\* position is zero exactly when entry_time is unset and avg_cost is 0, and
\* it is above zero exactly when entry_time is the time of the Buy that
\* opened the entry and avg_cost is above 0.
C28_FlatOrOpenConsistent ==
    /\ (position = 0) <=> (entry_time = None /\ avg_cost = <<0, 1>>)
    /\ (position > 0) <=>
          /\ Ref(idx).opened >= 1
          /\ entry_time = orders[Ref(idx).opened].FilledTime
          /\ avg_cost[1] > 0
    /\ position = Ref(idx).pos

\* C28's case: a second entry, opened after the first was closed by an
\* oversized Sell, has been sold in part and is still open.
C28_Witness ==
    /\ idx = 4
    /\ Closes(2)
    /\ orders[2].Filled > orders[1].Filled
    /\ Ref(4).opened = 3
    /\ orders[4].Side = "Sell"
    /\ position = 1
    /\ entry_time = orders[3].FilledTime
    /\ avg_cost = <<orders[3].AvgPrice, 1>>

\* C29: every scale_number "k/n" of the trades emitted so far, as written
\* and as it stands in the list, has 1 <= k <= n, also for the Sells whose
\* time is the entry's entry_time.
C29_ScaleNumberWithinBounds ==
    \A j \in DOMAIN trades :
        /\ 1 <= trades[j].scale_number[1]
        /\ trades[j].scale_number[1] <= trades[j].scale_number[2]

\* C29's case: an entry of two Buys was sold in part twice, all four rows
\* at the same time; both trades are Scale Out legs.
C29_Witness ==
    /\ idx = 4
    /\ Len(trades) = 2
    /\ orders[1].Side = "Buy"
    /\ orders[2].Side = "Buy"
    /\ \A i \in 2..4 : orders[i].FilledTime = orders[1].FilledTime
    /\ \A j \in 1..2 : trades[j].position_type = "Scale Out"
    /\ position > 0

\* C30 as claimed: when match_trades_with_scaling has returned and the last
\* call of parse_webull_csv had returned None, the list returned, which is
\* matched_trades, is empty; and when raw_orders holds a frame,
\* matched_trades is the result of this call alone: the trades of the
\* symbols of raw_orders, each as its own rows give them, and no trade of
\* an earlier call.
C30_NoStaleTradesAfterFailedParse ==
    (pc = "returned") =>
        /\ (parse_result = NoFrame) => matched_trades = <<>>
        /\ (raw_orders = NoFrame) => matched_trades = <<>>
        /\ (raw_orders # NoFrame) =>
              /\ \A j \in DOMAIN matched_trades :
                    matched_trades[j].symbol \in SymbolsOfRawOrders
              /\ \A sym \in SymbolsOfRawOrders :
                    TradesOf(matched_trades, sym) =
                        Matched(sym, OwnFills(sym), Len(OwnFills(sym))).trades

=============================================================================
